---- MODULE Spec2Model ----
(***************************************************************************)
(* A model of xiso-ex: the XDVDFS header locator and directory decoder,    *)
(* the extraction engine with its two sinks, and the remote size query.    *)
(*                                                                         *)
(* TLC's integers are 32-bit signed, while the program computes with u32,  *)
(* usize and u64 values.  Unsigned program values are therefore kept as    *)
(* two limbs [h, l] standing for h * 2^16 + l with 0 <= l < 2^16, which is *)
(* exact for every value below 2^47; i32 values are plain integers.        *)
(***************************************************************************)
EXTENDS Integers, Sequences, FiniteSets, TLC

VARIABLES
    ftpIn,      \* the remote server's answers to one size query
    ftpLib,     \* result of lib.rs ftp_check_file_size on ftpIn
    ftpCli,     \* result of ftp.rs FtpClient::get_file_size on ftpIn
    \* ---- XIso::extract_all ----
    pc,         \* position in extract_all / extract_record
    fs_mode,    \* XIso.fs_mode
    outIsFtp,   \* out_path.starts_with("ftp://")
    skip_update,
    root,       \* XIso.root
    root_offset,\* XIso.meta.root_offset
    imgLen,     \* length of the image file
    readerPos,  \* cursor of XIso.reader
    stack,      \* the extract_records calls in progress, innermost last
    cur,        \* the locals of the extract_record call in progress
    destDirs,   \* directories the destination holds (paths below out_path)
    destFiles,  \* files the destination holds: path -> size
    preFiles,   \* destFiles as it was when extract_all was called
    ops,        \* the sink operations issued so far, in order
    visited,    \* the paths extract_records has visited
    sink,       \* what the sink of the file in progress has received
    failed,     \* a call to the image, the filesystem or the server has failed
    opAfterFail,\* a sink operation was issued after a failed call
    result,     \* what extract_all returned
    \* ---- XIso::from_path ----
    img,        \* the image file: its length and bytes
    overflow_checks, \* the build panics on integer overflow (debug) or wraps (release)
    dpc,        \* position in from_path
    iso_meta,   \* what lib.rs get_iso_meta returned
    metaAlt,    \* what meta.rs get_iso_meta returns for the same image
    dreader,    \* cursor of the reader
    dstack,     \* the parse_dir calls in progress, innermost last
    droot,      \* XIso.root
    dresult,    \* what from_path returned
    seeks,      \* the positions parse_dir has sought to, in order
    rootAlt     \* what entry.rs parse_root returns for the same image

ftpVars == <<ftpIn, ftpLib, ftpCli>>
exVars == <<pc, fs_mode, outIsFtp, skip_update, root, root_offset, imgLen,
            readerPos, stack, cur, destDirs, destFiles, preFiles, ops,
            visited, sink, failed, opAfterFail, result>>
decVars == <<img, overflow_checks, dpc, iso_meta, metaAlt, dreader, dstack, droot,
             dresult, seeks, rootAlt>>
vars == <<ftpVars, exVars, decVars>>

(***************************************************************************)
(* Limb arithmetic                                                         *)
(***************************************************************************)
B16 == 2^16
B15 == 2^15

Big(h, l) == [h |-> h + (l \div B16), l |-> l % B16]
ToBig(n) == Big(0, n)
BigAdd(a, b) == Big(a.h + b.h, a.l + b.l)
BigLt(a, b) == a.h < b.h \/ (a.h = b.h /\ a.l < b.l)
BigLe(a, b) == a = b \/ BigLt(a, b)
\* a - b for a >= b
BigSub(a, b) ==
    IF a.l >= b.l THEN [h |-> a.h - b.h, l |-> a.l - b.l]
    ELSE [h |-> a.h - b.h - 1, l |-> a.l + B16 - b.l]
\* a * k for a < 2^32 and 0 <= k < 2^15
BigMulSmall(a, k) == Big(a.h * k, a.l * k)
BigMin(a, b) == IF BigLt(b, a) THEN b ELSE a
\* the low 32 bits: `as u32`
TruncU32(a) == [h |-> a.h % B16, l |-> a.l]
\* `as i32`: the low 32 bits read as two's complement
AsI32(a) ==
    LET t == TruncU32(a)
    IN  IF t.h >= B15 THEN (t.h - B16) * B16 + t.l ELSE t.h * B16 + t.l
\* `as i64` of a usize below 2^47: the value itself
AsI64(a) == [neg |-> FALSE, mag |-> a]
MinusOne64 == [neg |-> TRUE, mag |-> ToBig(1)]

Pow2_31 == [h |-> B15, l |-> 0]
Pow2_32 == [h |-> B16, l |-> 0]
U32Max == [h |-> B16 - 1, l |-> B16 - 1]
IsU32(a) == a.h < B16

(***************************************************************************)
(* The remote size query                                                   *)
(***************************************************************************)
Ok(v) == [tag |-> "Ok", val |-> v, msg |-> "", path |-> <<>>]
ErrAt(m, p) == [tag |-> "Err", val |-> 0, msg |-> m, path |-> p]
Err(m) == ErrAt(m, <<>>)
Panic == [tag |-> "Panic", val |-> 0, msg |-> "", path |-> <<>>]
NotRun == [tag |-> "NotRun", val |-> 0, msg |-> "", path |-> <<>>]

\* what FtpStream::size can answer
SizeOk(s) == [kind |-> "Ok", size |-> s, status |-> ""]
SizeErr(k, st) == [kind |-> k, size |-> ToBig(0), status |-> st]
SizeFileUnavailable == SizeErr("UnexpectedResponse", "FileUnavailable")

\* lib.rs ftp_check_file_size: -1 stands for an absent file
ftp_check_file_size(urlOk, resp) ==
    IF ~urlOk THEN Err("Error parsing ftp url")
    ELSE IF resp.kind = "Ok" THEN Ok(AsI32(resp.size))
    ELSE IF resp.kind = "ConnectionError" THEN Err("ftp file size error")
    ELSE IF resp.kind = "UnexpectedResponse" THEN
        IF resp.status = "FileUnavailable" THEN Ok(-1)
        ELSE Err("ftp file size error")
    ELSE IF resp.kind = "BadResponse" THEN Err("ftp file size error")
    ELSE Err("ftp file size error")

\* the listing entries whose name is `file`, in listing order
RECURSIVE MatchingEntries(_, _)
MatchingEntries(list, file) ==
    IF list = <<>> THEN <<>>
    ELSE LET rest == MatchingEntries(Tail(list), file)
         IN  IF Head(list).name = file THEN <<Head(list)>> \o rest ELSE rest

\* ftp.rs FtpClient::get_file_size
get_file_size(resp, cwdOk, listing, file) ==
    IF resp.kind = "Ok" THEN Ok(AsI64(resp.size))
    ELSE IF resp.kind = "UnexpectedResponse" THEN
        IF resp.status = "FileUnavailable" THEN Ok(MinusOne64)
        ELSE Err("ftp file size error")
    ELSE IF resp.kind = "BadResponse" THEN
        IF ~cwdOk THEN Err("Error changing directory")
        ELSE IF ~listing.ok THEN Err("ftp list error")
        ELSE IF \E i \in 1..Len(listing.lines) : ~listing.lines[i].parses THEN Panic
        ELSE LET m == MatchingEntries(listing.lines, file)
             IN  IF m = <<>> THEN Panic ELSE Ok(AsI64(m[Len(m)].size))
    ELSE Err("ftp file size error")

(***************************************************************************)
(* Records and listings (lib.rs Record)                                    *)
(***************************************************************************)
None == [some |-> FALSE, list |-> <<>>]
Some(l) == [some |-> TRUE, list |-> l]

\* Record::is_dir: attributes & 0x10 == 0x10
is_dir(e) == (e.attributes \div 16) % 2 = 1

sector_size == 2048
OFFSET_XGD3 == [h |-> 520, l |-> 0]      \* 0x2080000
OFFSET_XGD2 == [h |-> 4057, l |-> 0]     \* 0xFD90000
ChunkBytes == 1024 * 1024

\* names are byte strings
NameA == <<97>>
NameB == <<98>>
NameD == <<100>>
NameU == <<117>>
\* "$SystemUpdate"
NameSystemUpdate == <<36, 83, 121, 115, 116, 101, 109, 85, 112, 100, 97, 116, 101>>
\* "$systemupdate"
NameSystemUpdateLower == <<36, 115, 121, 115, 116, 101, 109, 117, 112, 100, 97, 116, 101>>

FileRec(name, sector, size) ==
    [name |-> name, sector |-> ToBig(sector), size |-> size,
     attributes |-> 32, subdirectory |-> None]
DirRec(name, sector, children) ==
    [name |-> name, sector |-> ToBig(sector), size |-> ToBig(sector_size),
     attributes |-> 16, subdirectory |-> Some(children)]

\* the files of a listing: their paths below `prefix`, with their sizes
RECURSIVE FilesOf(_, _)
FilesOf(entries, prefix) ==
    IF entries = <<>> THEN {}
    ELSE LET e == Head(entries)
             p == Append(prefix, e.name)
         IN  (IF is_dir(e) THEN FilesOf(e.subdirectory.list, p)
              ELSE {[path |-> p, size |-> e.size]})
             \cup FilesOf(Tail(entries), prefix)

RECURSIVE DirsOf(_, _)
DirsOf(entries, prefix) ==
    IF entries = <<>> THEN {}
    ELSE LET e == Head(entries)
             p == Append(prefix, e.name)
         IN  (IF is_dir(e) THEN {p} \cup DirsOf(e.subdirectory.list, p) ELSE {})
             \cup DirsOf(Tail(entries), prefix)

EmptyFiles == [p \in {} |-> ToBig(0)]
SetFile(files, p, size) == (p :> size) @@ files
DropFile(files, p) == [q \in (DOMAIN files) \ {p} |-> files[q]]

(***************************************************************************)
(* extract_all: the inputs                                                 *)
(***************************************************************************)
\* file sizes of the listings walked by Spec
SmallSizes == {ToBig(0), ToBig(100), BigAdd(ToBig(ChunkBytes), ToBig(100))}
\* file sizes of the listings walked by SpecBig
BigSizes == {ToBig(0), ToBig(ChunkBytes - 1), ToBig(ChunkBytes),
             BigAdd(Pow2_31, ToBig(5)), U32Max}

SubU == <<FileRec(NameU, 20, ToBig(100))>>

Listings(sizes) ==
    {<<FileRec(NameA, 10, s)>> : s \in sizes}
    \cup {<<DirRec(NameSystemUpdate, 5, SubU), FileRec(NameA, 10, s)>> : s \in sizes}
    \cup {<<DirRec(NameD, 6, <<DirRec(NameSystemUpdate, 5, SubU), FileRec(NameA, 10, s)>>)>> :
            s \in sizes}
    \cup {<<FileRec(NameSystemUpdate, 10, s)>> : s \in sizes}
    \cup {<<DirRec(NameSystemUpdateLower, 5, SubU)>>,
          <<DirRec(NameD, 6, <<>>)>>,
          <<FileRec(NameA, 10, ToBig(100)), FileRec(NameB, 11, ToBig(0))>>}

BigListings ==
    {<<FileRec(NameA, 10, s)>> : s \in BigSizes}
    \cup {<<DirRec(NameD, 6, <<FileRec(NameA, 10, s)>>)>> : s \in {ToBig(ChunkBytes), U32Max}}

\* what the destination holds when extract_all is called
PreKinds == {"empty", "rootOnly", "same", "diff"}
PreDirs(tree, kind) ==
    IF kind = "empty" THEN {}
    ELSE IF kind = "rootOnly" THEN {<<>>}
    ELSE {<<>>} \cup DirsOf(tree, <<>>)
PreFiles(tree, kind) ==
    IF kind \in {"empty", "rootOnly"} THEN EmptyFiles
    ELSE LET fs == FilesOf(tree, <<>>)
             sizeAt(p) == (CHOOSE f \in fs : f.path = p).size
         IN  [p \in {f.path : f \in fs} |->
                IF kind = "same" THEN sizeAt(p) ELSE BigAdd(sizeAt(p), ToBig(1))]

ImgFull == [h |-> 2^20, l |-> 0]
\* an image cut 50 bytes after the start of sector 10
ImgCut(off) == BigAdd(off, ToBig(10 * sector_size + 50))

NoCur == [active |-> FALSE, entry |-> FileRec(<<>>, 0, ToBig(0)), out_file |-> <<>>,
          position |-> ToBig(0),
          plan |-> [buffer_size |-> 0, chunk_count |-> 0, hasLast |-> FALSE,
                    last_chunk_size |-> 0],
          done |-> 0, lastDone |-> FALSE]
NotReported == [queried |-> FALSE, present |-> FALSE, size |-> ToBig(0)]
\* path, sector, size: the entry being written; start: the reader's cursor when the
\* stream was opened; bytes, chunks: what write_all has handed over; reported: the
\* destination's size as the verification learnt it
NoSink == [path |-> <<>>, sector |-> ToBig(0), size |-> ToBig(0),
           start |-> ToBig(0), bytes |-> ToBig(0), chunks |-> 0,
           contiguous |-> TRUE, overMax |-> FALSE, shortBeforeLast |-> FALSE,
           lastShort |-> FALSE, reported |-> NotReported]

ExInitWith(trees, skips) ==
    /\ pc = "start"
    /\ fs_mode = "Local"
    /\ outIsFtp \in BOOLEAN
    /\ skip_update \in skips
    /\ root \in trees
    /\ root_offset \in {OFFSET_XGD2, OFFSET_XGD3}
    /\ imgLen \in {ImgFull, ImgCut(root_offset)}
    /\ readerPos = ToBig(0)
    /\ stack = <<>>
    /\ cur = NoCur
    /\ \E kind \in PreKinds :
         /\ destDirs = PreDirs(root, kind)
         /\ destFiles = PreFiles(root, kind)
    /\ preFiles = destFiles
    /\ ops = <<>>
    /\ visited = {}
    /\ sink = NoSink
    /\ failed = FALSE
    /\ opAfterFail = FALSE
    /\ result = NotRun

DecIdle ==
    /\ img = [len |-> ToBig(0), chunks |-> {}, fill |-> 255]
    /\ overflow_checks = FALSE
    /\ dpc = "idle"
    /\ iso_meta = NotRun
    /\ metaAlt = NotRun
    /\ dreader = ToBig(0)
    /\ dstack = <<>>
    /\ droot = <<>>
    /\ dresult = NotRun
    /\ seeks = <<>>
    /\ rootAlt = NotRun

FtpIdle ==
    /\ ftpIn = [resp |-> SizeOk(ToBig(0)), urlOk |-> TRUE, cwdOk |-> TRUE,
                listing |-> [ok |-> TRUE, lines |-> <<>>]]
    /\ ftpLib = NotRun
    /\ ftpCli = NotRun

(***************************************************************************)
(* extract_all, extract_records, extract_record                            *)
(***************************************************************************)
BigToInt(a) == a.h * B16 + a.l

\* bit k (0..31) of a u32
BitOf(a, k) == IF k >= 16 THEN (a.h \div 2^(k - 16)) % 2 ELSE (a.l \div 2^k) % 2
Pow2Big(k) == IF k >= 16 THEN [h |-> 2^(k - 16), l |-> 0] ELSE [h |-> 0, l |-> 2^k]
RECURSIVE DivBits(_, _, _, _, _)
DivBits(a, d, k, q, r) ==
    IF k < 0 THEN [q |-> q, r |-> r]
    ELSE LET r2 == 2 * r + BitOf(a, k)
         IN  IF r2 >= d THEN DivBits(a, d, k - 1, BigAdd(q, Pow2Big(k)), r2 - d)
             ELSE DivBits(a, d, k - 1, q, r2)
\* u32 division and remainder, for 0 < d < 2^30
U32DivMod(a, d) == DivBits(a, d, 31, ToBig(0), 0)

\* a bug: skip_update filters nothing
FilterSystemUpdate_Nothing(entries) == entries

\* extract_all: the entries handed to extract_records
FilterSystemUpdate(entries) == SelectSeq(entries, LAMBDA e : e.name # NameSystemUpdate)

\* a bug: the position leaves out root_offset
record_position_NoRootOffset(offs, entry) == BigMulSmall(entry.sector, sector_size)

\* extract_record: the byte position of the entry's data in the image
record_position(offs, entry) == BigAdd(offs, BigMulSmall(entry.sector, sector_size))

\* extract_record: buffer_size, chunk_count and the last chunk
ChunkPlan(size) ==
    LET buffer_size == BigToInt(BigMin(size, ToBig(ChunkBytes)))
        dm == IF buffer_size = 0 THEN [q |-> ToBig(0), r |-> 0]
              ELSE U32DivMod(size, buffer_size)
        chunk_count == BigToInt(dm.q)
    IN  [buffer_size |-> buffer_size,
         chunk_count |-> chunk_count,
         hasLast |-> chunk_count > 0 /\ dm.r # 0,
         last_chunk_size |->
            BigToInt(BigSub(size, BigMulSmall(ToBig(buffer_size), chunk_count)))]

\* extract_record up to the opened write stream
extract_record_open(mode, entry, output_root, offs, seekOk, openOk, resp) ==
    LET position == record_position(offs, entry)
        out_file == Append(output_root, entry.name)
        base == [kind |-> "open", err |-> NotRun, position |-> position,
                 out_file |-> out_file]
    IN  IF ~seekOk THEN
            [base EXCEPT !.kind = "err", !.err = Err("Unable to jump to record")]
        ELSE IF mode = "Local" THEN
            IF openOk THEN base
            ELSE [base EXCEPT !.kind = "err", !.err = ErrAt("Error creating file", out_file)]
        ELSE
            LET file_size == ftp_check_file_size(TRUE, resp)
            IN  IF file_size.tag = "Err" THEN
                    [base EXCEPT !.kind = "err", !.err = file_size]
                ELSE IF file_size.val = -1 \/ file_size.val # AsI32(entry.size) THEN
                    IF openOk THEN base
                    ELSE [base EXCEPT !.kind = "err",
                                      !.err = ErrAt("Error opening write stream", out_file)]
                ELSE [base EXCEPT !.kind = "skip"]

\* extract_record after the last write: finalize or flush, then compare sizes
verify_size(mode, entry, out_file, finOk, resp, meta) ==
    IF mode = "FTP" THEN
        IF ~finOk THEN Err("Error finalizing ftp write stream")
        ELSE LET file_size == ftp_check_file_size(TRUE, resp)
             IN  IF file_size.tag = "Err" THEN file_size
                 ELSE IF file_size.val # AsI32(entry.size) THEN
                     ErrAt("File verification failed", out_file)
                 ELSE Ok(0)
    ELSE
        IF ~finOk THEN Err("Error flushing file writer")
        ELSE IF ~meta.ok THEN ErrAt("Error getting metadata", out_file)
        ELSE IF meta.size # entry.size THEN ErrAt("File verification failed", out_file)
        ELSE Ok(0)

\* the server's possible answers to SIZE for a path
SizeAnswers(p, files) ==
    (IF p \in DOMAIN files THEN {SizeOk(files[p])} ELSE {SizeFileUnavailable})
    \cup {SizeErr("ConnectionError", ""), SizeErr("BadResponse", "")}

Frame(entries, path) == [entries |-> entries, idx |-> 1, path |-> path, count |-> 0]
Top == stack[Len(stack)]
AtEntry == pc = "walk" /\ stack # <<>> /\ Top.idx <= Len(Top.entries)
Entry == Top.entries[Top.idx]
\* the innermost extract_records call moves to its next entry, one more file counted
Advance(n) == [stack EXCEPT ![Len(stack)].idx = @ + 1, ![Len(stack)].count = @ + n]

Op(o, p) == [op |-> o, path |-> p]

\* extract_all with a local out_path, create_out_dir included
ExtractAllLocal ==
    /\ pc = "start" /\ ~outIsFtp
    /\ \E fail \in {"none", "remove", "create"} :
        /\ (fail = "remove") => (<<>> \in destDirs)
        /\ LET removed == <<>> \in destDirs /\ fail # "remove"
               created == fail = "none"
               entries == IF skip_update THEN FilterSystemUpdate(root) ELSE root
           IN  /\ destDirs' = IF created THEN {<<>>} ELSE IF removed THEN {} ELSE destDirs
               /\ destFiles' = IF removed \/ created THEN EmptyFiles ELSE destFiles
               /\ ops' = ops \o (IF removed THEN <<Op("remove_dir_all", <<>>)>> ELSE <<>>)
                             \o (IF created THEN <<Op("create_dir", <<>>)>> ELSE <<>>)
               /\ IF created
                  THEN /\ pc' = "walk"
                       /\ stack' = <<Frame(entries, <<>>)>>
                       /\ UNCHANGED <<result, failed>>
                  ELSE /\ pc' = "error"
                       /\ result' = Err(IF fail = "remove"
                                        THEN "Error deleting output directory"
                                        ELSE "Error creating output directory")
                       /\ failed' = TRUE
                       /\ UNCHANGED stack
    /\ fs_mode' = "Local"
    /\ UNCHANGED <<outIsFtp, skip_update, root, root_offset, imgLen, readerPos, cur,
                   preFiles, visited, sink, opAfterFail, ftpVars, decVars>>

\* extract_all with an ftp:// out_path of one segment, create_out_dir included
ExtractAllFtp ==
    /\ pc = "start" /\ outIsFtp
    /\ \E fail \in {"none", "url", "connect", "login", "list", "mkdir", "cwd"} :
        /\ (fail = "mkdir") => (<<>> \notin destDirs)
        /\ LET made == <<>> \notin destDirs /\ fail \in {"none", "cwd"}
               entries == IF skip_update THEN FilterSystemUpdate(root) ELSE root
           IN  /\ destDirs' = IF made THEN destDirs \cup {<<>>} ELSE destDirs
               /\ ops' = ops \o (IF made THEN <<Op("create_dir", <<>>)>> ELSE <<>>)
               /\ IF fail = "none"
                  THEN /\ pc' = "walk"
                       /\ stack' = <<Frame(entries, <<>>)>>
                       /\ UNCHANGED <<result, failed>>
                  ELSE /\ pc' = "error"
                       /\ result' = Err(CASE fail = "url" -> "Error parsing ftp url"
                                          [] fail \in {"connect", "login"} ->
                                                "Error connecting to ftp server"
                                          [] fail = "list" ->
                                                "Error listing directory on ftp server"
                                          [] fail = "mkdir" ->
                                                "Error creating directory on ftp server"
                                          [] OTHER ->
                                                "Error changing directory on ftp server")
                       /\ failed' = TRUE
                       /\ UNCHANGED stack
    /\ fs_mode' = "FTP"
    /\ UNCHANGED <<outIsFtp, skip_update, root, root_offset, imgLen, readerPos, cur,
                   destFiles, preFiles, visited, sink, opAfterFail, ftpVars, decVars>>

\* extract_records on a directory entry: dir_exists, create_dir, then its children
VisitDir ==
    /\ AtEntry /\ is_dir(Entry)
    /\ LET new_dir == Append(Top.path, Entry.name)
           present == new_dir \in destDirs
           taken == present \/ new_dir \in DOMAIN destFiles
       IN  \E q \in {"yes", "no", "error"}, mk \in {"ok", "err"} :
            \* Local: Path::exists, false when the metadata cannot be read;
            \* FTP: cwd, which fails on an absent directory and on a lost connection
            /\ (q = "yes") => (IF fs_mode = "Local" THEN taken ELSE present)
            /\ (q = "error") => (fs_mode = "FTP")
            /\ (q = "no") => ~(IF fs_mode = "Local" THEN taken ELSE present)
            /\ (mk = "ok") => ~taken
            /\ LET exists == q = "yes"
                   created == ~exists /\ mk = "ok"
               IN  /\ ops' = ops \o <<[op |-> "dir_exists", path |-> new_dir, answer |-> exists]>>
                                 \o (IF ~exists THEN <<Op("create_dir", new_dir)>> ELSE <<>>)
                   /\ destDirs' = IF created THEN destDirs \cup {new_dir} ELSE destDirs
                   /\ visited' = visited \cup {new_dir}
                   /\ opAfterFail' = (opAfterFail \/ (~exists /\ (failed \/ q = "error")))
                   /\ failed' = (failed \/ q = "error" \/ (~exists /\ mk = "err"))
                   /\ IF exists \/ created
                      THEN /\ stack' = IF Entry.subdirectory.some
                                       THEN Append(stack, Frame(Entry.subdirectory.list, new_dir))
                                       ELSE Advance(0)
                           /\ UNCHANGED <<pc, result>>
                      ELSE /\ pc' = "error"
                           /\ result' = ErrAt("Error creating dir", new_dir)
                           /\ UNCHANGED stack
    /\ UNCHANGED <<fs_mode, outIsFtp, skip_update, root, root_offset, imgLen, readerPos,
                   cur, destFiles, preFiles, sink, ftpVars, decVars>>

\* extract_records: the end of a listing
Return ==
    /\ pc = "walk" /\ stack # <<>> /\ Top.idx > Len(Top.entries)
    /\ IF Len(stack) = 1
       THEN /\ pc' = "done"
            /\ result' = Ok(Top.count)
            /\ stack' = <<>>
       ELSE /\ stack' = [SubSeq(stack, 1, Len(stack) - 1) EXCEPT
                            ![Len(stack) - 1].idx = @ + 1,
                            ![Len(stack) - 1].count = @ + Top.count]
            /\ UNCHANGED <<pc, result>>
    /\ UNCHANGED <<fs_mode, outIsFtp, skip_update, root, root_offset, imgLen, readerPos,
                   cur, destDirs, destFiles, preFiles, ops, visited, sink, failed,
                   opAfterFail, ftpVars, decVars>>

\* extract_records on a file entry: extract_record up to the opened write stream
OpenFile ==
    /\ AtEntry /\ ~is_dir(Entry)
    /\ \E seekOk \in BOOLEAN, openOk \in BOOLEAN,
          resp \in SizeAnswers(Append(Top.path, Entry.name), destFiles) :
        LET r == extract_record_open(fs_mode, Entry, Top.path, root_offset,
                                     seekOk, openOk, resp)
        IN  /\ readerPos' = IF seekOk THEN r.position ELSE readerPos
            /\ visited' = visited \cup {r.out_file}
            /\ ops' = IF r.kind = "open"
                      THEN Append(ops, Op(IF fs_mode = "Local" THEN "create" ELSE "put",
                                          r.out_file))
                      ELSE ops
            /\ destFiles' = IF r.kind = "open" THEN SetFile(destFiles, r.out_file, ToBig(0))
                            ELSE destFiles
            /\ failed' = (failed \/ r.kind = "err")
            /\ opAfterFail' = (opAfterFail \/ (r.kind = "open" /\ failed))
            /\ CASE r.kind = "open" ->
                      /\ pc' = "chunks"
                      /\ cur' = [active |-> TRUE, entry |-> Entry, out_file |-> r.out_file,
                                 position |-> r.position, plan |-> ChunkPlan(Entry.size),
                                 done |-> 0, lastDone |-> FALSE]
                      /\ sink' = [NoSink EXCEPT !.path = r.out_file, !.sector = Entry.sector,
                                                !.size = Entry.size, !.start = readerPos']
                      /\ UNCHANGED <<stack, result>>
                 [] r.kind = "skip" ->
                      /\ stack' = Advance(1)
                      /\ UNCHANGED <<pc, cur, sink, result>>
                 [] OTHER ->
                      /\ pc' = "error"
                      /\ result' = r.err
                      /\ UNCHANGED <<stack, cur, sink>>
    /\ UNCHANGED <<fs_mode, outIsFtp, skip_update, root, root_offset, imgLen, destDirs,
                   preFiles, ftpVars, decVars>>

\* read_exact of n bytes from the image, then write_all of them to the sink
Transfer(n, writeOk, cur2) ==
    LET readOk == BigLe(BigAdd(readerPos, ToBig(n)), imgLen)
    IN  /\ readerPos' = IF readOk THEN BigAdd(readerPos, ToBig(n)) ELSE readerPos
        /\ opAfterFail' = (opAfterFail \/ (readOk /\ failed))
        /\ IF readOk /\ writeOk
           THEN /\ sink' = [sink EXCEPT
                              !.bytes = BigAdd(@, ToBig(n)),
                              !.chunks = @ + 1,
                              !.contiguous = @ /\ readerPos = BigAdd(sink.start, sink.bytes),
                              !.overMax = @ \/ n > ChunkBytes,
                              !.shortBeforeLast = @ \/ sink.lastShort,
                              !.lastShort = n < ChunkBytes]
                /\ cur' = cur2
                /\ UNCHANGED <<pc, result, failed>>
           ELSE /\ pc' = "error"
                /\ result' = IF readOk THEN ErrAt("Error writing to file", cur.out_file)
                             ELSE Err("Error reading from ISO file")
                /\ failed' = TRUE
                /\ UNCHANGED <<sink, cur>>
        /\ UNCHANGED <<fs_mode, outIsFtp, skip_update, root, root_offset, imgLen, stack,
                       destDirs, destFiles, preFiles, ops, visited, ftpVars, decVars>>

\* extract_record: one turn of the loop over the full chunks
WriteChunk ==
    /\ pc = "chunks" /\ cur.done < cur.plan.chunk_count
    /\ \E writeOk \in BOOLEAN :
        Transfer(cur.plan.buffer_size, writeOk, [cur EXCEPT !.done = @ + 1])

\* extract_record: the last, shorter chunk
WriteLast ==
    /\ pc = "chunks" /\ cur.done >= cur.plan.chunk_count
    /\ cur.plan.hasLast /\ ~cur.lastDone
    /\ \E writeOk \in BOOLEAN :
        Transfer(cur.plan.last_chunk_size, writeOk, [cur EXCEPT !.lastDone = TRUE])

\* what the destination may hold once the stream is closed
Landed(entry) ==
    {[present |-> TRUE, size |-> entry.size],
     [present |-> TRUE, size |-> BigAdd(entry.size, ToBig(1))],
     [present |-> TRUE, size |-> BigAdd(entry.size, Pow2_32)],
     [present |-> FALSE, size |-> ToBig(0)]}

\* extract_record: finalize or flush, then verify the size
VerifyFile ==
    /\ pc = "chunks" /\ cur.done >= cur.plan.chunk_count
    /\ cur.plan.hasLast => cur.lastDone
    /\ \E finOk \in BOOLEAN, statOk \in BOOLEAN, landed \in Landed(cur.entry) :
        LET files2 == IF ~finOk THEN destFiles
                      ELSE IF landed.present
                           THEN SetFile(destFiles, cur.out_file, landed.size)
                           ELSE DropFile(destFiles, cur.out_file)
            here == cur.out_file \in DOMAIN files2
            meta == [ok |-> statOk /\ here,
                     size |-> IF here THEN files2[cur.out_file] ELSE ToBig(0)]
        IN  \E resp \in SizeAnswers(cur.out_file, files2) :
              LET v == verify_size(fs_mode, cur.entry, cur.out_file, finOk, resp, meta)
                  \* whether the size query itself was answered
                  told == /\ finOk
                          /\ IF fs_mode = "FTP"
                             THEN resp.kind = "Ok" \/ resp = SizeFileUnavailable
                             ELSE statOk \/ ~here
              IN  /\ destFiles' = files2
                  /\ sink' = [sink EXCEPT !.reported =
                                [queried |-> told, present |-> here, size |-> meta.size]]
                  /\ failed' = (failed \/ v.tag = "Err")
                  /\ IF v.tag = "Ok"
                     THEN /\ pc' = "walk"
                          /\ stack' = Advance(1)
                          /\ cur' = NoCur
                          /\ UNCHANGED result
                     ELSE /\ pc' = "error"
                          /\ result' = v
                          /\ UNCHANGED <<stack, cur>>
    /\ UNCHANGED <<fs_mode, outIsFtp, skip_update, root, root_offset, imgLen, readerPos,
                   destDirs, preFiles, ops, visited, opAfterFail, ftpVars, decVars>>

ExNext ==
    \/ ExtractAllLocal
    \/ ExtractAllFtp
    \/ VisitDir
    \/ Return
    \/ OpenFile
    \/ WriteChunk
    \/ WriteLast
    \/ VerifyFile

ExInit == ExInitWith(Listings(SmallSizes), BOOLEAN) /\ FtpIdle /\ DecIdle
ExInitBig == ExInitWith(BigListings, {FALSE}) /\ FtpIdle /\ DecIdle

Spec == ExInit /\ [][ExNext]_vars
SpecBig == ExInitBig /\ [][ExNext]_vars

(***************************************************************************)
(* Properties of the extraction engine                                     *)
(***************************************************************************)
StreamOps == {"create", "put"}
Opened(p) == \E i \in DOMAIN ops : ops[i].op \in StreamOps /\ ops[i].path = p
UnderSystemUpdate(p) == p # <<>> /\ p[1] = NameSystemUpdate

\* C2: a file the destination already held, at an entry's target path and with
\* exactly the entry's size, when extract_all was called gets no write stream
\* (it is neither created nor truncated) and no bytes, in Local and in FTP mode.
C2_ResumeSkipsEqualSize ==
    \A f \in FilesOf(root, <<>>) :
        (f.path \in DOMAIN preFiles /\ preFiles[f.path] = f.size)
            => (~Opened(f.path) /\ sink.path # f.path)

\* C3: when the destination's size as learnt after the write (Absent included)
\* differs from the entry's size, the run has stopped with an error that names
\* the destination path.
C3_MismatchIsReported ==
    (sink.reported.queried
        /\ (~sink.reported.present \/ sink.reported.size # sink.size))
    => (pc = "error" /\ result.tag = "Err" /\ result.path = sink.path)

\* the file in progress has been handed over completely
WriteComplete ==
    /\ sink.path # <<>>
    /\ \/ pc \in {"walk", "done"}
       \/ (pc = "chunks" /\ cur.done >= cur.plan.chunk_count
             /\ (cur.plan.hasLast => cur.lastDone))

\* C4: the bytes handed to the sink of a file are the image's bytes from
\* root_offset + sector * 2048 on, in order and without a gap, in chunks of at
\* most 1 MiB of which only the last is shorter, never more than `size` of them
\* and exactly `size` once the file is written.
C4_ExactBytesInChunks ==
    sink.path # <<>> =>
        /\ sink.start = BigAdd(root_offset, Big(sink.sector.h * 2048, sink.sector.l * 2048))
        /\ sink.contiguous
        /\ ~sink.overMax
        /\ ~sink.shortBeforeLast
        /\ BigLe(sink.bytes, sink.size)
        /\ WriteComplete => sink.bytes = sink.size

\* C4 witness: a file of 2^32 - 1 bytes written in 4095 full chunks and a last one
C4_Witness ==
    /\ WriteComplete
    /\ sink.size = U32Max
    /\ sink.bytes = U32Max
    /\ sink.chunks = 4096
    /\ sink.lastShort

\* C7: every failed call ends the run with an error at once, and no sink
\* operation is issued after a failed call.
C7_NoSilentRecovery ==
    /\ failed => (pc = "error" /\ result.tag = "Err")
    /\ ~opAfterFail

\* C10: with skip_update, nothing at or below a root-level "$SystemUpdate" is
\* visited, created, opened or written, the returned count is the number of the
\* other files, and every other entry (a nested "$SystemUpdate" too) is visited.
C10_SkipUpdateAtRootOnly ==
    skip_update =>
        /\ \A p \in visited : ~UnderSystemUpdate(p)
        /\ \A i \in DOMAIN ops : ~UnderSystemUpdate(ops[i].path)
        /\ ~UnderSystemUpdate(sink.path)
        /\ pc = "done" =>
            /\ result.val = Cardinality({f \in FilesOf(root, <<>>) : ~UnderSystemUpdate(f.path)})
            /\ visited = {p \in {f.path : f \in FilesOf(root, <<>>)} \cup DirsOf(root, <<>>) :
                            ~UnderSystemUpdate(p)}

\* C10 witness: a run with skip_update over a root holding a "$SystemUpdate"
\* directory and one more file has ended, one file counted
C10_Witness ==
    /\ skip_update
    /\ pc = "done"
    /\ Len(root) = 2
    /\ root[1].name = NameSystemUpdate
    /\ is_dir(root[1])
    /\ result.val = 1

Parent(p) == SubSeq(p, 1, Len(p) - 1)
DirQueried(p) == \E i \in DOMAIN ops : ops[i].op = "dir_exists" /\ ops[i].path = p

\* C11: for each directory entry, the destination directory's existence is
\* queried first, create_dir follows only a query that answered "absent", a
\* directory that already exists never ends the run with an error, and whatever
\* is done below a directory is done when that directory exists.
C11_DirEnsuredBeforeChildren ==
    /\ \A p \in visited \cap DirsOf(root, <<>>) : DirQueried(p)
    /\ \A i \in DOMAIN ops :
          (ops[i].op = "create_dir" /\ ops[i].path # <<>>) =>
              /\ i > 1
              /\ ops[i - 1].op = "dir_exists"
              /\ ops[i - 1].path = ops[i].path
              /\ ~ops[i - 1].answer
    /\ ~(pc = "error" /\ result.msg = "Error creating dir" /\ result.path \in destDirs)
    /\ \A i \in DOMAIN ops :
          (ops[i].path # <<>> /\ Parent(ops[i].path) # <<>>) =>
              Parent(ops[i].path) \in destDirs

\* C12: the count extract_all returns is the number of file entries that were
\* extracted, those for which a write stream was opened; a file the resume
\* check skipped is not counted.
C12_CountIsExtractedFiles ==
    pc = "done" =>
        result.val = Cardinality({f \in FilesOf(root, <<>>) : Opened(f.path)})

(***************************************************************************)
(* The remote size query on its own: both implementations on one answer    *)
(***************************************************************************)
MaxList == 2

FtpSizes == {ToBig(0), ToBig(100), BigSub(Pow2_31, ToBig(1)), Pow2_31, U32Max,
             BigAdd(Pow2_32, ToBig(100))}
FtpResponses ==
    {SizeOk(sz) : sz \in FtpSizes}
    \cup {SizeFileUnavailable,
          SizeErr("UnexpectedResponse", "NotLoggedIn"),
          SizeErr("ConnectionError", ""),
          SizeErr("BadResponse", ""),
          SizeErr("InvalidAddress", "")}

\* a line of a LIST answer, as suppaftp::list::File::from_str reads it
ListLines ==
    {[name |-> NameA, size |-> BigAdd(Pow2_32, ToBig(100)), parses |-> TRUE],
     [name |-> NameA, size |-> ToBig(7), parses |-> TRUE],
     [name |-> NameB, size |-> ToBig(5), parses |-> TRUE],
     [name |-> <<>>, size |-> ToBig(0), parses |-> FALSE]}
ListAnswers ==
    {[ok |-> FALSE, lines |-> <<>>]}
    \cup {[ok |-> TRUE, lines |-> l] :
            l \in UNION {[1..n -> ListLines] : n \in 0..MaxList}}

\* the file whose size is asked for
QueriedFile == NameA

ExIdle ==
    /\ pc = "idle"
    /\ fs_mode = "FTP"
    /\ outIsFtp = TRUE
    /\ skip_update = FALSE
    /\ root = <<>>
    /\ root_offset = OFFSET_XGD2
    /\ imgLen = ImgFull
    /\ readerPos = ToBig(0)
    /\ stack = <<>>
    /\ cur = NoCur
    /\ destDirs = {}
    /\ destFiles = EmptyFiles
    /\ preFiles = EmptyFiles
    /\ ops = <<>>
    /\ visited = {}
    /\ sink = NoSink
    /\ failed = FALSE
    /\ opAfterFail = FALSE
    /\ result = NotRun

FtpInit ==
    /\ ftpIn \in [resp : FtpResponses, urlOk : BOOLEAN, cwdOk : BOOLEAN,
                  listing : ListAnswers]
    /\ ftpLib = NotRun
    /\ ftpCli = NotRun
    /\ ExIdle
    /\ DecIdle

\* lib.rs ftp_check_file_size answers
QueryLib ==
    /\ ftpLib = NotRun
    /\ ftpLib' = ftp_check_file_size(ftpIn.urlOk, ftpIn.resp)
    /\ UNCHANGED <<ftpIn, ftpCli, exVars, decVars>>

\* ftp.rs FtpClient::get_file_size answers
QueryClient ==
    /\ ftpCli = NotRun
    /\ ftpCli' = get_file_size(ftpIn.resp, ftpIn.cwdOk, ftpIn.listing, QueriedFile)
    /\ UNCHANGED <<ftpIn, ftpLib, exVars, decVars>>

FtpNext == QueryLib \/ QueryClient

SpecFtp == FtpInit /\ [][FtpNext]_vars

FatalAnswer(resp) ==
    \/ resp.kind \in {"ConnectionError", "InvalidAddress"}
    \/ (resp.kind = "UnexpectedResponse" /\ resp.status # "FileUnavailable")

\* C8: a numeric answer yields that size, "file unavailable" yields Absent (-1),
\* which no size yields, and every other unexpected or connection error is an
\* error; for ftp_check_file_size and for FtpClient::get_file_size.
C8_ThreeOutcomes ==
    /\ (ftpLib # NotRun /\ ftpIn.urlOk) =>
        /\ ftpIn.resp.kind = "Ok" =>
            (ftpLib.tag = "Ok" /\ ftpLib.val >= 0 /\ ToBig(ftpLib.val) = ftpIn.resp.size)
        /\ ftpIn.resp = SizeFileUnavailable => ftpLib = Ok(-1)
        /\ FatalAnswer(ftpIn.resp) => ftpLib.tag = "Err"
    /\ ftpCli # NotRun =>
        /\ ftpIn.resp.kind = "Ok" => ftpCli = Ok([neg |-> FALSE, mag |-> ftpIn.resp.size])
        /\ ftpIn.resp = SizeFileUnavailable => ftpCli = Ok(MinusOne64)
        /\ FatalAnswer(ftpIn.resp) => ftpCli.tag = "Err"

\* the sizes the listing gives for the queried file
ListedSizes == {ftpIn.listing.lines[i].size :
                  i \in {j \in DOMAIN ftpIn.listing.lines :
                           ftpIn.listing.lines[j].name = QueriedFile}}
FallbackPossible ==
    /\ ftpIn.resp.kind = "BadResponse"
    /\ ftpIn.urlOk /\ ftpIn.cwdOk /\ ftpIn.listing.ok
    /\ \A i \in DOMAIN ftpIn.listing.lines : ftpIn.listing.lines[i].parses
    /\ ListedSizes # {}

\* C9: on a bad (garbled) size answer, with the parent directory listed and the
\* file in the listing, the query returns the listed size instead of failing;
\* for ftp_check_file_size and for FtpClient::get_file_size.
C9_BadResponseFallsBack ==
    FallbackPossible =>
        /\ ftpLib # NotRun =>
            (ftpLib.tag = "Ok" /\ \E sz \in ListedSizes : ftpLib.val = AsI32(sz))
        /\ ftpCli # NotRun =>
            (ftpCli.tag = "Ok" /\ \E sz \in ListedSizes : ftpCli.val = AsI64(sz))

(***************************************************************************)
(* The image and its reader                                                *)
(***************************************************************************)
\* An image is its length, the byte runs that were written to it and the byte
\* that fills every other place.
InChunk(c, pos) == BigLe(c.start, pos) /\ BigLt(pos, BigAdd(c.start, ToBig(Len(c.data))))
ByteAt(im, pos) ==
    LET cs == {c \in im.chunks : InChunk(c, pos)}
    IN  IF cs = {} THEN im.fill
        ELSE LET c == CHOOSE x \in cs : TRUE
             IN  c.data[BigToInt(BigSub(pos, c.start)) + 1]
At(pos, k) == BigAdd(pos, ToBig(k))
\* read_exact of n bytes at pos succeeds when they lie inside the image
CanRead(im, pos, n) == BigLe(At(pos, n), im.len)
ReadBytes(im, pos, n) == [i \in 1..n |-> ByteAt(im, At(pos, i - 1))]
\* u16::from_le_bytes, u32::from_le_bytes
U16At(im, pos) == ByteAt(im, pos) + 256 * ByteAt(im, At(pos, 1))
U32At(im, pos) == [h |-> U16At(im, At(pos, 2)), l |-> U16At(im, pos)]

HEADER_OFFSET == [h |-> 1, l |-> 0]      \* 0x10000
\* "MICROSOFT*XBOX*MEDIA"
MAGIC == <<77, 73, 67, 82, 79, 83, 79, 70, 84, 42, 88, 66, 79, 88, 42, 77, 69, 68, 73, 65>>

(***************************************************************************)
(* get_iso_meta                                                            *)
(***************************************************************************)
\* lib.rs check_magic_string: Err when the 20 bytes cannot be read
check_magic_string(im, offset) ==
    IF ~CanRead(im, offset, 20) THEN [ok |-> FALSE, found |-> FALSE]
    ELSE [ok |-> TRUE, found |-> ReadBytes(im, offset, 20) = MAGIC]

\* lib.rs get_iso_meta from the two read_exact(..).unwrap() on
ReadRootFields(im, offs) ==
    LET p == At(BigAdd(HEADER_OFFSET, offs), 20)
    IN  IF ~CanRead(im, p, 8) THEN Panic
        ELSE Ok([root_offset |-> offs,
                 root_dir_sector |-> U32At(im, p),
                 root_dir_size |-> U32At(im, At(p, 4)),
                 sector_size |-> sector_size])

\* lib.rs get_iso_meta
get_iso_meta(im) ==
    LET c2 == check_magic_string(im, BigAdd(HEADER_OFFSET, OFFSET_XGD2))
        c3 == check_magic_string(im, BigAdd(HEADER_OFFSET, OFFSET_XGD3))
    IN  IF ~c2.ok THEN Err("Error detecting XISO type")
        ELSE IF c2.found THEN ReadRootFields(im, OFFSET_XGD2)
        ELSE IF ~c3.ok THEN Err("Error detecting XISO type")
        ELSE IF c3.found THEN ReadRootFields(im, OFFSET_XGD3)
        ELSE Err("Unsupported XISO format")

\* meta.rs IsoMeta::read(reader).ok(): the magic, then two u32; None on any error
IsoMetaRead(im, pos) ==
    IF CanRead(im, pos, 20) /\ ReadBytes(im, pos, 20) = MAGIC /\ CanRead(im, pos, 28)
    THEN Some([root_dir_sector |-> U32At(im, At(pos, 20)),
               root_dir_size |-> U32At(im, At(pos, 24))])
    ELSE None

\* meta.rs get_iso_meta
meta_get_iso_meta(im) ==
    LET m2 == IsoMetaRead(im, BigAdd(OFFSET_XGD2, HEADER_OFFSET))
        m3 == IsoMetaRead(im, BigAdd(OFFSET_XGD3, HEADER_OFFSET))
        made(m, offs) == Ok([root_offset |-> offs,
                             root_dir_sector |-> m.list.root_dir_sector,
                             root_dir_size |-> m.list.root_dir_size])
    IN  IF m2.some THEN made(m2, OFFSET_XGD2)
        ELSE IF m3.some THEN made(m3, OFFSET_XGD3)
        ELSE Err("Unsupported XISO format")

(***************************************************************************)
(* Record::parse and parse_dir                                             *)
(***************************************************************************)
\* String::from_utf8_lossy, for ASCII bytes and for bytes that are no UTF-8
from_utf8_lossy(bytes) == [i \in DOMAIN bytes |-> IF bytes[i] < 128 THEN bytes[i] ELSE 65533]

\* str::to_lowercase, for ASCII letters
to_lowercase(name) ==
    [i \in DOMAIN name |-> IF name[i] >= 65 /\ name[i] <= 90 THEN name[i] + 32 ELSE name[i]]

\* the order of String: lexicographic
RECURSIVE LexLt(_, _)
LexLt(a, b) ==
    IF b = <<>> THEN FALSE
    ELSE IF a = <<>> THEN TRUE
    ELSE IF Head(a) # Head(b) THEN Head(a) < Head(b)
    ELSE LexLt(Tail(a), Tail(b))

\* a bug: the sort compares the names as they are
sort_key_CaseSensitive(rec) == rec.name

\* parse_dir: the key of sort_by_key
sort_key(rec) == to_lowercase(rec.name)

RECURSIVE InsertByKey(_, _)
InsertByKey(sorted, e) ==
    IF sorted = <<>> THEN <<e>>
    ELSE IF LexLt(sort_key(e), sort_key(Head(sorted))) THEN <<e>> \o sorted
    ELSE <<Head(sorted)>> \o InsertByKey(Tail(sorted), e)

\* Vec::sort_by_key: a stable sort
RECURSIVE SortFrom(_, _)
SortFrom(sorted, rest) ==
    IF rest = <<>> THEN sorted
    ELSE SortFrom(InsertByKey(sorted, Head(rest)), Tail(rest))
sort_by_key(entries) == SortFrom(<<>>, entries)

\* parse_dir: push unless an entry of that name exists
PushUnlessExists(entries, entry) ==
    IF \E i \in DOMAIN entries : entries[i].name = entry.name THEN entries
    ELSE Append(entries, entry)

\* a bug: only the left pointer is tested
IsSentinel_LeftOnly(left, right) == left = 65535

\* Record::parse: the record marks the end of the records
IsSentinel(left, right) == left = 65535 \/ right = 65535

\* a bug: the name is not padded
alignment_mismatch_None(pos) == 0

\* Record::parse: the bytes to skip after the name, from the stream position
alignment_mismatch(pos) == (4 - (pos.l % 4)) % 4

\* Record::parse up to the recursion into a subdirectory.  `left`, `right` and
\* `at` record where the entry came from; Record itself does not keep them.
Record_parse(im, pos) ==
    LET eof == [kind |-> "eof", next |-> pos, rec |-> <<>>]
    IN  IF ~CanRead(im, pos, 4) THEN eof
        ELSE LET left == U16At(im, pos)
                 right == U16At(im, At(pos, 2))
             IN  IF IsSentinel(left, right)
                 THEN [kind |-> "none", next |-> At(pos, 4), rec |-> <<>>]
                 ELSE IF ~CanRead(im, pos, 14) THEN eof
                 ELSE LET name_length == ByteAt(im, At(pos, 13))
                          after == At(pos, 14 + name_length)
                      IN  IF ~CanRead(im, pos, 14 + name_length) THEN eof
                          ELSE [kind |-> "some",
                                next |-> At(after, alignment_mismatch(after)),
                                rec |-> [name |-> from_utf8_lossy(
                                                    ReadBytes(im, At(pos, 14), name_length)),
                                         sector |-> U32At(im, At(pos, 4)),
                                         size |-> U32At(im, At(pos, 8)),
                                         attributes |-> ByteAt(im, At(pos, 12)),
                                         subdirectory |-> None,
                                         left |-> left, right |-> right, at |-> pos]]

\* parse_dir: sector_count
sector_count(size) ==
    LET dm == U32DivMod(size, sector_size)
    IN  BigToInt(dm.q) + (IF dm.r > 0 THEN 1 ELSE 0)

(***************************************************************************)
(* Images                                                                  *)
(***************************************************************************)
MaxRecs == 3
MaxDepth == 3

U16LE(n) == <<n % 256, n \div 256>>
U32LE(a) == U16LE(a.l) \o U16LE(a.h)
Pad(n) == [i \in 1..((4 - (n % 4)) % 4) |-> 255]
\* a record as it lies in a directory sector, padded to a multiple of 4 bytes
EncodeRecord(t) ==
    U16LE(t.left) \o U16LE(t.right) \o U32LE(t.sector) \o U32LE(t.size)
        \o <<t.attributes, Len(t.name)>> \o t.name \o Pad(14 + Len(t.name))
RECURSIVE EncodeRecords(_)
EncodeRecords(ts) ==
    IF ts = <<>> THEN <<>> ELSE EncodeRecord(Head(ts)) \o EncodeRecords(Tail(ts))

RawRec(name, left, right, sector, size, attributes) ==
    [name |-> name, left |-> left, right |-> right, sector |-> ToBig(sector),
     size |-> ToBig(size), attributes |-> attributes]
NameUpperA == <<65>>
NameUpperB == <<66>>
NameX == <<120>>
RootDirSector == ToBig(1)
SubDirSector == ToBig(2)
RecPool ==
    { RawRec(NameA, 0, 0, 10, 100, 32),
      RawRec(NameUpperA, 0, 0, 11, 100, 32),
      RawRec(NameUpperB, 0, 0, 12, 100, 32),
      RawRec(NameA, 0, 0, 13, 7, 32),
      RawRec(NameD, 0, 0, SubDirSector.l, 2 * sector_size, 16),
      RawRec(NameX, 1, 65535, 14, 100, 32) }
SubDirRecs ==
    << RawRec(NameB, 0, 0, 20, 5, 32),
       RawRec(NameA, 0, 0, 21, 5, 32),
       RawRec(NameUpperB, 0, 0, 22, 5, 32),
       RawRec(NameX, 65535, 1, 23, 5, 32),
       RawRec(NameUpperA, 0, 0, 24, 5, 32) >>
\* the second sector of the subdirectory
SubDirRecs2 == << RawRec(NameU, 0, 0, 25, 5, 32) >>
RootContents == UNION {[1..n -> RecPool] : n \in 0..MaxRecs}
FewContents == {<<>>, <<RawRec(NameA, 0, 0, 10, 100, 32)>>}

ImgLenFull == At(BigAdd(OFFSET_XGD2, HEADER_OFFSET), sector_size)
ImgLenXgd3 == At(BigAdd(OFFSET_XGD3, HEADER_OFFSET), sector_size)
HeaderCase(m2, m3, len) == [m2 |-> m2, m3 |-> m3, len |-> len]
FullHeaders == {HeaderCase(TRUE, FALSE, ImgLenFull), HeaderCase(FALSE, TRUE, ImgLenFull)}
OtherHeaders ==
    { HeaderCase(TRUE, TRUE, ImgLenFull),
      HeaderCase(FALSE, FALSE, ImgLenFull),
      HeaderCase(FALSE, TRUE, ImgLenXgd3),
      HeaderCase(FALSE, FALSE, ImgLenXgd3),
      HeaderCase(FALSE, FALSE, ToBig(100)),
      HeaderCase(TRUE, FALSE, At(BigAdd(OFFSET_XGD2, HEADER_OFFSET), 24)),
      HeaderCase(FALSE, TRUE, At(BigAdd(OFFSET_XGD3, HEADER_OFFSET), 20)) }

HeaderBytes == MAGIC \o U32LE(RootDirSector) \o U32LE(ToBig(sector_size))
MakeImage(hc, recs) ==
    LET base == IF hc.m2 THEN OFFSET_XGD2 ELSE OFFSET_XGD3
        hdr(offs) == [start |-> BigAdd(offs, HEADER_OFFSET), data |-> HeaderBytes]
        dir(sec, rs) == [start |-> BigAdd(base, BigMulSmall(sec, sector_size)), data |-> EncodeRecords(rs)]
    IN  [len |-> hc.len,
         fill |-> 255,
         chunks |-> (IF hc.m2 THEN {hdr(OFFSET_XGD2)} ELSE {})
                    \cup (IF hc.m3 THEN {hdr(OFFSET_XGD3)} ELSE {})
                    \cup {c \in {dir(RootDirSector, recs), dir(SubDirSector, SubDirRecs),
                                 dir(At(SubDirSector, 1), SubDirRecs2)} :
                            c.data # <<>>}]
\* images as long as a u32 sector number can reach, with the root directory at
\* the first or at the last sector number and of no, two or three sectors
ImgLenWide == [h |-> 2^27 + 1024, l |-> 0]
WideRootSectors == {ToBig(1), U32Max}
WideRootSizes == {ToBig(0), ToBig(2 * sector_size), ToBig(2 * sector_size + 1)}
NameAB == <<97, 98>>
NameABC == <<97, 98, 99>>
NameABCD == <<97, 98, 99, 100>>
\* names of one to four bytes: every padding from 0 to 3 bytes
WideRecs ==
    << RawRec(NameA, 0, 0, 10, 100, 32),
       RawRec(NameAB, 0, 0, 11, 100, 32),
       RawRec(NameABC, 0, 0, 12, 100, 32),
       RawRec(NameABCD, 0, 0, 13, 100, 32) >>
WideImage(rootSector, rootSize) ==
    [len |-> ImgLenWide,
     fill |-> 255,
     chunks |-> { [start |-> BigAdd(OFFSET_XGD3, HEADER_OFFSET),
                   data |-> MAGIC \o U32LE(rootSector) \o U32LE(rootSize)],
                  [start |-> BigAdd(OFFSET_XGD3, BigMulSmall(rootSector, sector_size)),
                   data |-> EncodeRecords(WideRecs)] }]
WideImages == {WideImage(sec, size) : sec \in WideRootSectors, size \in WideRootSizes}

\* an image whose directories are search trees: the first record points to the
\* records left (offset 4 * 4) and right (offset 8 * 4) of it
TreeRootRecs ==
    << RawRec(NameB, 4, 8, 10, 100, 32),
       RawRec(NameA, 0, 0, 11, 100, 32),
       RawRec(NameD, 0, 0, SubDirSector.l, sector_size, 16) >>
TreeSubRecs ==
    << RawRec(NameB, 4, 8, 20, 5, 32),
       RawRec(NameA, 0, 0, 21, 5, 32),
       RawRec(NameU, 0, 0, 22, 5, 32) >>
TreeImage(offs) ==
    [len |-> ImgLenFull,
     fill |-> 255,
     chunks |-> { [start |-> BigAdd(offs, HEADER_OFFSET), data |-> HeaderBytes],
                  [start |-> BigAdd(offs, BigMulSmall(RootDirSector, sector_size)),
                   data |-> EncodeRecords(TreeRootRecs)],
                  [start |-> BigAdd(offs, BigMulSmall(SubDirSector, sector_size)),
                   data |-> EncodeRecords(TreeSubRecs)] }]
TreeImages == {TreeImage(OFFSET_XGD2), TreeImage(OFFSET_XGD3)}

\* an image whose root holds a directory record that points back to the root's
\* own sector
LoopRootRecs ==
    << RawRec(NameA, 0, 0, 10, 100, 32),
       RawRec(NameD, 0, 0, RootDirSector.l, sector_size, 16) >>
LoopImage ==
    [len |-> ImgLenFull,
     fill |-> 255,
     chunks |-> { [start |-> BigAdd(OFFSET_XGD2, HEADER_OFFSET), data |-> HeaderBytes],
                  [start |-> BigAdd(OFFSET_XGD2, BigMulSmall(RootDirSector, sector_size)),
                   data |-> EncodeRecords(LoopRootRecs)] }]

\* an image of zero bytes but for the header and, in the sector after the root
\* directory's one sector, a record and the end mark: the root sector holds no
\* record with a pointer of 0xFFFF
NameZ == <<122>>
ZeroImage ==
    [len |-> ImgLenFull,
     fill |-> 0,
     chunks |-> { [start |-> BigAdd(OFFSET_XGD2, HEADER_OFFSET), data |-> HeaderBytes],
                  [start |-> BigAdd(OFFSET_XGD2, BigMulSmall(At(RootDirSector, 1), sector_size)),
                   data |-> EncodeRecord(RawRec(NameZ, 0, 0, 30, 9, 32))
                            \o <<255, 255, 255, 255>>] }]

Images ==
    {MakeImage(hc, recs) : hc \in FullHeaders, recs \in RootContents}
        \cup {MakeImage(hc, recs) : hc \in OtherHeaders, recs \in FewContents}
        \cup WideImages
        \cup TreeImages
        \cup {LoopImage, ZeroImage}

(***************************************************************************)
(* from_path: get_iso_meta, then parse_dir of the root                     *)
(***************************************************************************)
DirFrame(sector, size, cur_pos, pending) ==
    [sector |-> sector, size |-> size, sector_count |-> sector_count(size), i |-> 0,
     entries |-> <<>>, mode |-> "seek", cur_pos |-> cur_pos, pending |-> pending]
DTop == dstack[Len(dstack)]
SetTop(f) == [dstack EXCEPT ![Len(dstack)] = f]

\* from_path: get_iso_meta and the call of parse_dir for the root
GetIsoMeta ==
    /\ dpc = "start"
    /\ iso_meta' = get_iso_meta(img)
    /\ metaAlt' = meta_get_iso_meta(img)
    /\ IF iso_meta'.tag = "Ok"
       THEN /\ dpc' = "parse"
            /\ dstack' = <<DirFrame(iso_meta'.val.root_dir_sector,
                                    iso_meta'.val.root_dir_size, ToBig(0), <<>>)>>
            /\ dresult' = dresult
       ELSE /\ dpc' = (IF iso_meta'.tag = "Panic" THEN "panic" ELSE "error")
            /\ dstack' = <<>>
            /\ dresult' = iso_meta'
    /\ UNCHANGED <<img, overflow_checks, dreader, droot, seeks, rootAlt, ftpVars, exVars>>

\* parse_dir: the head of the sector loop, sector_position and the seek
SeekSector ==
    /\ dpc = "parse"
    /\ Len(dstack) > 0
    /\ DTop.mode = "seek"
    /\ DTop.i < DTop.sector_count
    /\ LET sum == BigAdd(DTop.sector, ToBig(DTop.i))
           sector_position == BigAdd(BigMulSmall(TruncU32(sum), iso_meta.val.sector_size),
                                     iso_meta.val.root_offset)
       IN  IF ~IsU32(sum) /\ overflow_checks
           THEN /\ dpc' = "panic"
                /\ dstack' = <<>>
                /\ UNCHANGED <<dreader, seeks>>
           ELSE /\ dreader' = sector_position
                /\ seeks' = Append(seeks, sector_position)
                /\ dstack' = SetTop([DTop EXCEPT !.mode = "scan"])
                /\ dpc' = dpc
    /\ UNCHANGED <<img, overflow_checks, iso_meta, metaAlt, droot, dresult, rootAlt, ftpVars, exVars>>

\* one turn of `while let Some(entry) = Record::parse(..)?`
ParseRecord ==
    /\ dpc = "parse"
    /\ Len(dstack) > 0
    /\ DTop.mode = "scan"
    /\ LET r == Record_parse(img, dreader)
       IN  CASE r.kind = "eof" ->
                  /\ dpc' = "error"
                  /\ dresult' = Err("Error parsing ISO file")
                  /\ dstack' = <<>>
                  /\ dreader' = dreader
             [] r.kind = "none" ->
                  /\ dstack' = SetTop([DTop EXCEPT !.mode = "seek", !.i = @ + 1])
                  /\ dreader' = r.next
                  /\ UNCHANGED <<dpc, dresult>>
             [] r.kind = "some" /\ ~is_dir(r.rec) ->
                  /\ dstack' = SetTop([DTop EXCEPT !.entries = PushUnlessExists(@, r.rec)])
                  /\ dreader' = r.next
                  /\ UNCHANGED <<dpc, dresult>>
             [] r.kind = "some" /\ is_dir(r.rec) ->
                  \* more than MaxDepth nested calls: a recursion without end, which
                  \* the program ends by exhausting its stack
                  IF Len(dstack) < MaxDepth
                  THEN /\ dstack' = Append(dstack, DirFrame(r.rec.sector, r.rec.size,
                                                            r.next, r.rec))
                       /\ dreader' = r.next
                       /\ UNCHANGED <<dpc, dresult>>
                  ELSE /\ dpc' = "overflow"
                       /\ dstack' = <<>>
                       /\ UNCHANGED <<dreader, dresult>>
    /\ UNCHANGED <<img, overflow_checks, iso_meta, metaAlt, droot, seeks, rootAlt, ftpVars, exVars>>

\* parse_dir: the sort and the return, to Record::parse or to from_path
ReturnDir ==
    /\ dpc = "parse"
    /\ Len(dstack) > 0
    /\ DTop.mode = "seek"
    /\ DTop.i >= DTop.sector_count
    /\ LET sorted == sort_by_key(DTop.entries)
       IN  IF Len(dstack) = 1
           THEN /\ droot' = sorted
                /\ dpc' = "done"
                /\ dresult' = Ok(0)
                /\ dstack' = <<>>
                /\ dreader' = dreader
           ELSE LET parent == dstack[Len(dstack) - 1]
                    entry == [DTop.pending EXCEPT !.subdirectory = Some(sorted)]
                IN  /\ dstack' = [SubSeq(dstack, 1, Len(dstack) - 1) EXCEPT
                                    ![Len(dstack) - 1] =
                                        [parent EXCEPT !.entries = PushUnlessExists(@, entry)]]
                    /\ dreader' = DTop.cur_pos
                    /\ UNCHANGED <<droot, dpc, dresult>>
    /\ UNCHANGED <<img, overflow_checks, iso_meta, metaAlt, seeks, rootAlt, ftpVars, exVars>>

(***************************************************************************)
(* entry.rs: the decoder that follows the left and right pointers          *)
(***************************************************************************)
MaxCalls == 8

\* DirEntry::read: the fields, the name, then align_after = 4
DirEntry_read(im, pos) ==
    IF ~CanRead(im, pos, 14) \/ ~CanRead(im, pos, 14 + ByteAt(im, At(pos, 13)))
    THEN [ok |-> FALSE, rec |-> <<>>]
    ELSE LET name_len == ByteAt(im, At(pos, 13))
         IN  [ok |-> TRUE,
              rec |-> [left_offset |-> U16At(im, pos),
                       right_offset |-> U16At(im, At(pos, 2)),
                       sector |-> U32At(im, At(pos, 4)),
                       size |-> U32At(im, At(pos, 8)),
                       attributes |-> ByteAt(im, At(pos, 12)),
                       name |-> from_utf8_lossy(ReadBytes(im, At(pos, 14), name_len)),
                       subdir |-> None]]

AltOk(list) == [tag |-> "Ok", list |-> list]
AltFail(tag, list) == [tag |-> tag, list |-> list]

\* the one element of a set of one element
The(S) == CHOOSE x \in S : TRUE

\* entry.rs parse_dir_entry; `calls` is the room left for nested calls, and a
\* recursion deeper than that ends as a stack overflow.  Each intermediate
\* result is bound once, as the element of a singleton.
RECURSIVE parse_dir_entry(_, _, _, _, _, _)
parse_dir_entry(im, meta, sector, offset, parent, calls) ==
    IF calls = 0 THEN AltFail("Overflow", parent)
    ELSE The({
        IF ~r.ok THEN AltFail("Err", parent)
        ELSE The({
            IF sub.tag # "Ok" THEN AltFail(sub.tag, parent)
            ELSE The({
                The({
                    IF lft.tag # "Ok" THEN lft
                    ELSE The({
                        IF rgt.tag # "Ok" THEN rgt ELSE AltOk(Append(rgt.list, record))
                        : rgt \in {IF record.right_offset # 0
                                   THEN parse_dir_entry(im, meta, sector, record.right_offset,
                                                        lft.list, calls - 1)
                                   ELSE AltOk(lft.list)} })
                    : lft \in {IF record.left_offset # 0
                               THEN parse_dir_entry(im, meta, sector, record.left_offset,
                                                    parent, calls - 1)
                               ELSE AltOk(parent)} })
                : record \in {[r.rec EXCEPT !.subdir = IF is_dir(r.rec) THEN Some(sub.list)
                                                       ELSE None]} })
            : sub \in {IF is_dir(r.rec)
                       THEN parse_dir_entry(im, meta, r.rec.sector, 0, <<>>, calls - 1)
                       ELSE AltOk(<<>>)} })
        : r \in {DirEntry_read(im,
                    At(BigAdd(BigMulSmall(sector, sector_size), meta.root_offset),
                       offset * 4))} })

\* entry.rs parse_root (default build)
parse_root(im, meta) ==
    The({ IF r.tag = "Ok" THEN Ok(sort_by_key(r.list))
          ELSE IF r.tag = "Err" THEN Err("Error parsing ISO file")
          ELSE Panic
          : r \in {parse_dir_entry(im, meta, meta.root_dir_sector, 0, <<>>, MaxCalls)} })

\* the other decoder on the same image, once the first has come to its end
ParseRootAlt ==
    /\ dpc \in {"done", "error", "panic", "overflow"}
    /\ metaAlt.tag = "Ok"
    /\ rootAlt = NotRun
    /\ rootAlt' = parse_root(img, metaAlt.val)
    /\ UNCHANGED <<img, overflow_checks, dpc, iso_meta, metaAlt, dreader, dstack, droot,
                   dresult, seeks, ftpVars, exVars>>

DecInit ==
    /\ img \in Images
    /\ overflow_checks \in BOOLEAN
    /\ dpc = "start"
    /\ iso_meta = NotRun
    /\ metaAlt = NotRun
    /\ dreader = ToBig(0)
    /\ dstack = <<>>
    /\ droot = <<>>
    /\ dresult = NotRun
    /\ seeks = <<>>
    /\ rootAlt = NotRun
    /\ ExIdle
    /\ FtpIdle
DecNext ==
    \/ GetIsoMeta
    \/ SeekSector
    \/ ParseRecord
    \/ ReturnDir
    \/ ParseRootAlt
SpecDecode == DecInit /\ [][DecNext]_vars

(***************************************************************************)
(* Properties of the decoded listings                                      *)
(***************************************************************************)
RECURSIVE SubListings(_)
SubListings(entries) ==
    UNION { IF entries[i].subdirectory.some
            THEN {entries[i].subdirectory.list} \cup SubListings(entries[i].subdirectory.list)
            ELSE {} : i \in DOMAIN entries }
\* every listing parse_dir has returned so far
ReturnedListings ==
    (IF dpc = "done" THEN {droot} ELSE {})
        \cup SubListings(droot)
        \cup UNION {SubListings(dstack[k].entries) : k \in DOMAIN dstack}
\* and the listings still being collected
AllListings == ReturnedListings \cup {dstack[k].entries : k \in DOMAIN dstack}

LowerName(e) == to_lowercase(e.name)
StrictlyAscending(l) ==
    \A i \in 1..(Len(l) - 1) : LexLt(LowerName(l[i]), LowerName(l[i + 1]))
NonDecreasing(l) ==
    \A i \in 1..(Len(l) - 1) : ~LexLt(LowerName(l[i + 1]), LowerName(l[i]))
NoIdenticalNames(l) ==
    \A i, j \in DOMAIN l : i # j => l[i].name # l[j].name

\* C1: every listing parse_dir returns, the root's and every subdirectory's,
\* is strictly ascending by lower-cased name and holds no name twice.
C1_StrictlyAscendingNoDuplicates ==
    \A l \in ReturnedListings : StrictlyAscending(l) /\ NoIdenticalNames(l)

\* C1, as the code has it: every listing parse_dir returns is in non-decreasing
\* order of the lower-cased names (names that differ only in case stand next to
\* each other, in the order they were read) and holds no name twice.
C1_SortedNoDuplicates ==
    \A l \in ReturnedListings : NonDecreasing(l) /\ NoIdenticalNames(l)

\* a finished decode with a listing the sort reordered and in which two names
\* differ only in case, and a root sector in which the record of a repeated
\* name was dropped
C1_Witness ==
    /\ dpc = "done"
    /\ \E l \in ReturnedListings :
          /\ \E i \in 1..(Len(l) - 1) :
                /\ LowerName(l[i]) = LowerName(l[i + 1])
                /\ l[i].name # l[i + 1].name
          /\ \E i \in 1..(Len(l) - 1) : BigLt(l[i + 1].at, l[i].at)
    /\ \E i, j \in DOMAIN droot :
          /\ droot[j].at = At(droot[i].at, 32)
          /\ \A k \in DOMAIN droot : droot[k].at # At(droot[i].at, 16)

HoldsMagic(im, offs) ==
    /\ CanRead(im, BigAdd(offs, HEADER_OFFSET), 20)
    /\ ReadBytes(im, BigAdd(offs, HEADER_OFFSET), 20) = MAGIC
MetaFrom(im, offs) ==
    [root_offset |-> offs,
     root_dir_sector |-> U32At(im, At(BigAdd(offs, HEADER_OFFSET), 20)),
     root_dir_size |-> U32At(im, At(BigAdd(offs, HEADER_OFFSET), 24)),
     sector_size |-> sector_size]

\* C5: for an image of any length, get_iso_meta answers with the first of XGD2,
\* XGD3 whose region at candidate + 0x10000 holds the magic, the root sector and
\* size being the 8 bytes after the magic; it fails exactly when neither region
\* holds the magic, and then nothing of the directory is decoded.
C5_FirstMatchingCandidate ==
    dpc \notin {"idle", "start"} =>
        IF HoldsMagic(img, OFFSET_XGD2)
        THEN iso_meta = Ok(MetaFrom(img, OFFSET_XGD2))
        ELSE IF HoldsMagic(img, OFFSET_XGD3)
        THEN iso_meta = Ok(MetaFrom(img, OFFSET_XGD3))
        ELSE /\ iso_meta.tag = "Err"
             /\ seeks = <<>>
             /\ dstack = <<>>
             /\ droot = <<>>

NoSentinelListed ==
    /\ \A l \in AllListings :
          \A i \in DOMAIN l : l[i].left # 65535 /\ l[i].right # 65535
    /\ \A k \in DOMAIN dstack :
          k > 1 => dstack[k].pending.left # 65535 /\ dstack[k].pending.right # 65535
AtSentinel ==
    /\ dpc = "parse"
    /\ Len(dstack) > 0
    /\ DTop.mode = "scan"
    /\ CanRead(img, dreader, 4)
    /\ (U16At(img, dreader) = 65535 \/ U16At(img, At(dreader, 2)) = 65535)
\* the scan of the sector is over: nothing is listed, the next sector is due
SentinelStopsSector ==
    AtSentinel =>
        /\ Len(dstack') = Len(dstack)
        /\ dstack' = SetTop([DTop EXCEPT !.mode = "seek", !.i = DTop.i + 1])
        /\ dpc' = "parse"
NextSectorDue ==
    /\ dpc = "parse"
    /\ Len(dstack) > 0
    /\ DTop.mode = "seek"
    /\ DTop.i > 0
    /\ DTop.i < DTop.sector_count
    /\ IsU32(At(DTop.sector, DTop.i))
\* the scan continues at the start of the next sector of the region
ContinuesWithNextSector ==
    NextSectorDue =>
        /\ dreader' = BigAdd(BigMulSmall(At(DTop.sector, DTop.i), sector_size),
                             iso_meta.val.root_offset)
        /\ dstack' = SetTop([DTop EXCEPT !.mode = "scan"])

HasName(l, n) == \E i \in DOMAIN l : l[i].name = n
ExpectedSectors(size) == size.h * 32 + (size.l + sector_size - 1) \div sector_size
SeekDue ==
    /\ dpc = "parse"
    /\ Len(dstack) > 0
    /\ DTop.mode = "seek"
\* the position of sector + i, computed without a limit of 32 bits
ExactSectorPosition(sector, i) ==
    BigAdd(iso_meta.val.root_offset, BigMulSmall(At(sector, i), sector_size))
SeeksExactSector ==
    (SeekDue /\ DTop.i < ExpectedSectors(DTop.size)) =>
        /\ dpc' = "parse"
        /\ dreader' = ExactSectorPosition(DTop.sector, DTop.i)
        /\ seeks' = Append(seeks, dreader')
        /\ dstack' = SetTop([DTop EXCEPT !.mode = "scan"])
NoSeekBeyondRegion ==
    (SeekDue /\ DTop.i >= ExpectedSectors(DTop.size)) =>
        /\ seeks' = seeks
        /\ Len(dstack') = Len(dstack) - 1
SectorsInAscendingOrder ==
    (dpc = "parse" /\ dpc' = "parse" /\ Len(dstack') = Len(dstack) /\ Len(dstack) > 0) =>
        /\ dstack'[Len(dstack)].i \in {DTop.i, DTop.i + 1}
        /\ dstack'[Len(dstack)].i <= ExpectedSectors(DTop.size)

\* C13: parse_dir(size, sector) seeks, for i = 0 .. ceil(size / 2048) - 1 in
\* ascending order, to exactly root_offset + (sector + i) * 2048, whatever u32
\* values sector and size have: sector + i neither wraps nor overflows.
C13_SeeksEverySectorExactly ==
    [][SeeksExactSector /\ NoSeekBeyondRegion /\ SectorsInAscendingOrder]_vars

\* where the scan of the current sector of the innermost parse_dir started
SectorStart ==
    BigAdd(BigMulSmall(TruncU32(At(DTop.sector, DTop.i)), sector_size),
           iso_meta.val.root_offset)
RecordAhead ==
    /\ dpc = "parse"
    /\ Len(dstack) > 0
    /\ DTop.mode = "scan"
    /\ CanRead(img, dreader, 14)
    /\ U16At(img, dreader) # 65535
    /\ U16At(img, At(dreader, 2)) # 65535
    /\ CanRead(img, dreader, 14 + ByteAt(img, At(dreader, 13)))
\* the end of the name, counted from the start of the sector, and its padding
NameEndInSector == BigToInt(BigSub(dreader, SectorStart)) + 14 + ByteAt(img, At(dreader, 13))
PadInSector == (4 - (NameEndInSector % 4)) % 4
NextRecordInSector == At(SectorStart, NameEndInSector + PadInSector)

\* C14: after the name of a record, the next record is decoded from the next
\* offset that is a multiple of 4 counted from the start of the sector being
\* scanned, though the code pads by the absolute stream position.
C14_PaddingRelativeToSector ==
    [][(RecordAhead /\ dpc' = "parse") =>
          /\ dreader' = NextRecordInSector
          /\ (Len(dstack') > Len(dstack)) => dstack'[Len(dstack')].cur_pos = NextRecordInSector
      ]_vars

\* a decoded root with names of one, two, three and four bytes
C14_Witness ==
    /\ dpc = "done"
    /\ {Len(droot[i].name) : i \in DOMAIN droot} = {1, 2, 3, 4}

\* a listing as the caller sees it: name, sector, size, attributes, children
RECURSIVE TreeOf(_)
TreeOf(l) ==
    [i \in DOMAIN l |->
        [name |-> l[i].name, sector |-> l[i].sector, size |-> l[i].size,
         attributes |-> l[i].attributes,
         children |-> IF l[i].subdirectory.some THEN TreeOf(l[i].subdirectory.list)
                      ELSE <<>>]]
RECURSIVE TreeOfAlt(_)
TreeOfAlt(l) ==
    [i \in DOMAIN l |->
        [name |-> l[i].name, sector |-> l[i].sector, size |-> l[i].size,
         attributes |-> l[i].attributes,
         children |-> IF l[i].subdir.some THEN TreeOfAlt(l[i].subdir.list) ELSE <<>>]]

\* C15: on every image the decoder that follows the pointers (entry.rs
\* parse_root) returns the same tree of listings, at the root and in every
\* subdirectory, as the decoder that scans the sectors (lib.rs parse_dir).
C15_DecodersAgree ==
    (rootAlt.tag # "NotRun" /\ (dpc = "done" \/ rootAlt.tag = "Ok")) =>
        /\ dpc = "done"
        /\ rootAlt.tag = "Ok"
        /\ TreeOfAlt(rootAlt.val) = TreeOf(droot)

\* C16: decoding comes to a result or to an error after finitely many steps,
\* also when a directory record points back to the sectors of its own or of an
\* enclosing directory: it never runs into a recursion without end.
C16_DecodingTerminates ==
    /\ dpc # "overflow"
    /\ \A j, k \in DOMAIN dstack :
          j < k => <<dstack[j].sector, dstack[j].size>> # <<dstack[k].sector, dstack[k].size>>

\* the bytes of the directory at `sector` with `size`: from the start of its
\* first sector to the end of its last
InRegion(pos, sector, size) ==
    /\ BigLe(ExactSectorPosition(sector, 0), pos)
    /\ BigLt(pos, ExactSectorPosition(sector, ExpectedSectors(size)))
RECURSIVE ListingInRegion(_, _, _)
ListingInRegion(l, sector, size) ==
    \A i \in DOMAIN l :
        /\ InRegion(l[i].at, sector, size)
        /\ l[i].subdirectory.some =>
              ListingInRegion(l[i].subdirectory.list, l[i].sector, l[i].size)

\* C17: every entry of a listing was decoded from a record inside the sectors of
\* its directory, and the scan that started at a sector reads no record from
\* beyond the end of that sector, also when the sector holds no end mark.
C17_EntriesFromOwnRegion ==
    /\ dpc = "done" =>
          ListingInRegion(droot, iso_meta.val.root_dir_sector, iso_meta.val.root_dir_size)
    /\ \A k \in DOMAIN dstack :
          ListingInRegion(dstack[k].entries, dstack[k].sector, dstack[k].size)
    /\ (dpc = "parse" /\ Len(dstack) > 0 /\ DTop.mode = "scan") =>
          BigLt(dreader, At(SectorStart, sector_size))

====
